---- MODULE Spec2Model ----
(***************************************************************************)
(* HashHound: search of a disk image for files whose SHA-256 digest is in  *)
(* a target hash set (src/src/core/image_search.py).                       *)
(*                                                                         *)
(* Python strings and byte strings are sequences of one-character strings. *)
(* Python's None is the integer -1 wherever the other values are naturals  *)
(* (partition_offset, the three timestamps).                               *)
(***************************************************************************)
EXTENDS Integers, Sequences, FiniteSets, TLC

(* ------------------------------ bounds --------------------------------- *)

\* Largest number of entries in a partition table.
MaxParts == 2
\* Largest number of adverse events in one run: collaborator calls that
\* raise, interrupts.
MaxFaults == 1
\* Largest reading of the wall clock, in seconds.
MaxClock == 1

(* --------------------------- Python helpers ---------------------------- *)

None == -1

SLASH == "/"

\* The byte that is not valid in the name encoding: decode(errors="ignore")
\* drops it.
BadByte == "#"

RECURSIVE LStrip(_)
LStrip(s) ==
    IF s # <<>> /\ Head(s) = SLASH THEN LStrip(Tail(s)) ELSE s

RECURSIVE RStrip(_)
RStrip(s) ==
    IF s # <<>> /\ s[Len(s)] = SLASH THEN RStrip(SubSeq(s, 1, Len(s) - 1)) ELSE s

\* str.strip("/")
Strip(s) == RStrip(LStrip(s))

\* "/".join([a, b])
Join(a, b) == a \o <<SLASH>> \o b

\* str.replace("//", "/"): non-overlapping occurrences, left to right.
RECURSIVE Replace(_)
Replace(s) ==
    IF Len(s) < 2 THEN s
    ELSE IF s[1] = SLASH /\ s[2] = SLASH
         THEN <<SLASH>> \o Replace(SubSeq(s, 3, Len(s)))
         ELSE <<s[1]>> \o Replace(Tail(s))

\* bytes.decode(errors="ignore")
RECURSIVE Decode(_)
Decode(raw) ==
    IF raw = <<>> THEN <<>>
    ELSE IF Head(raw) = BadByte THEN Decode(Tail(raw))
         ELSE <<Head(raw)>> \o Decode(Tail(raw))

\* str.split("/"): the list of the pieces between separators.
RECURSIVE Split(_)
Split(s) ==
    IF \A i \in 1..Len(s) : s[i] # SLASH THEN <<s>>
    ELSE LET k == CHOOSE i \in 1..Len(s) :
                     s[i] = SLASH /\ \A j \in 1..(i - 1) : s[j] # SLASH
         IN <<SubSeq(s, 1, k - 1)>> \o Split(SubSeq(s, k + 1, Len(s)))

\* hashlib.sha256(data).hexdigest(): an injective function of the data.
Sha256(data) == <<"sha256", data>>

\* datetime.datetime.fromtimestamp(t)
FromTimestamp(t) == t + 1000

(* ------------------------- the image (pytsk3) -------------------------- *)

\* TSK_FS_META: type, size and the three timestamps (0 when not populated).
Meta(type, size, crtime, mtime, atime) ==
    [present |-> TRUE, type |-> type, size |-> size,
     crtime |-> crtime, mtime |-> mtime, atime |-> atime]

\* info.meta is None.
NoMeta ==
    [present |-> FALSE, type |-> "reg", size |-> 0,
     crtime |-> 0, mtime |-> 0, atime |-> 0]

\* A directory entry: info.name (raw bytes), info.meta, the bytes read_random
\* can return, and the entries below it.
Entry(has_name, name, meta, content, children) ==
    [has_name |-> has_name, name |-> name, meta |-> meta,
     content |-> content, children |-> children]

RegFile(name, size, content, cr, mt, at) ==
    Entry(TRUE, name, Meta("reg", size, cr, mt, at), content, <<>>)

Directory(name, children) ==
    Entry(TRUE, name, Meta("dir", 0, 0, 0, 0), <<>>, children)

\* The filesystem of the first partition; it starts at byte 0, so it is also
\* what FS_Info(img) without an offset mounts.
FsA ==
    << Directory(<<".">>, <<>>),
       Directory(<<".", ".">>, <<>>),
       RegFile(<<"a">>, 1, <<"x">>, 5, 6, 0),
       Directory(<<"d">>,
           << Directory(<<".">>, <<>>),
              Directory(<<".", ".">>, <<>>),
              RegFile(<<"b">>, 2, <<"x", "y">>, 0, 7, 8),
              RegFile(<<"$", "m">>, 1, <<"x">>, 1, 1, 1) >>),
       Directory(<<"$", "e">>, << RegFile(<<"c">>, 1, <<"x">>, 2, 2, 2) >>),
       Entry(FALSE, <<>>, NoMeta, <<>>, <<>>) >>

\* A filesystem with undecodable names, an entry without metadata, a file
\* three levels down whose read comes back short.
FsB ==
    << RegFile(<<BadByte, "$", "a">>, 1, <<"x">>, 3, 3, 3),
       Entry(TRUE, <<"c">>, NoMeta, <<"x">>, <<>>),
       Directory(<<"d">>,
           << Directory(<<"e">>,
                  << RegFile(<<"f">>, 2, <<"x">>, 4, 0, 4) >>) >>),
       RegFile(<<"b", BadByte>>, 1, <<"x">>, 9, 9, 9) >>

FsC ==
    << RegFile(<<"b">>, 0, <<>>, 0, 0, 0),
       RegFile(<<"a">>, 1, <<"x">>, 5, 5, 5) >>

\* Partition start addresses (in blocks) an image can list.
Offsets == {0, 2048, 4096}

\* volume.info.block_size
BlockSize == 512

\* The filesystem FS_Info finds at a byte offset of the image.
FsAtByte(byte_offset) ==
    IF byte_offset = 0 THEN FsA
    ELSE IF byte_offset = 2048 * BlockSize THEN FsB
    ELSE FsC

\* The partition tables: TSK lists the partitions by ascending start.
RECURSIVE Ascending(_)
Ascending(S) ==
    IF S = {} THEN <<>>
    ELSE LET m == CHOOSE x \in S : \A y \in S : x <= y
         IN <<m>> \o Ascending(S \ {m})

Tables == { Ascending(S) : S \in { T \in SUBSET Offsets : Cardinality(T) <= MaxParts } }

Images ==
    [readable : {TRUE}, parts : Tables, block_size : {BlockSize}]
    \cup [readable : {FALSE}, parts : {<<>>}, block_size : {BlockSize}]

\* The target hash sets.
HashSets ==
    { {},
      {Sha256(<<"x">>)},
      {Sha256(<<>>), Sha256(<<"x", "y">>)},
      {Sha256(<<>>), Sha256(<<"x">>), Sha256(<<"x", "y">>)} }

\* The path components TSK looks up: the non-empty pieces between "/".
Components(path) == SelectSeq(Split(path), LAMBDA c : c # <<>>)

\* The entry a path names below a list of entries: <<entry>>, or <<>> when
\* some component names nothing.
RECURSIVE Lookup(_, _)
Lookup(entries, comps) ==
    LET hit == SelectSeq(entries, LAMBDA e : e.has_name /\ e.name = Head(comps))
    IN IF hit = <<>> THEN <<>>
       ELSE IF Len(comps) = 1 THEN <<hit[1]>>
            ELSE Lookup(hit[1].children, Tail(comps))

\* fs.open_dir(path): <<entries>> of the directory, or <<>> when there is none
\* (pytsk3 raises IOError).
OpenDir(root, path) ==
    IF Components(path) = <<>> THEN <<root>>
    ELSE LET hit == Lookup(root, Components(path))
         IN IF hit = <<>> \/ ~hit[1].meta.present \/ hit[1].meta.type # "dir"
            THEN <<>> ELSE <<hit[1].children>>

\* fs.open(path): <<entry>> of the file, or <<>> when there is none.
OpenFile(root, path) ==
    IF Components(path) = <<>> THEN <<>> ELSE Lookup(root, Components(path))

\* file_obj.read_random(0, size): at most size bytes of the content.
ReadRandom(entry, size) ==
    SubSeq(entry.content, 1, IF size < Len(entry.content) THEN size ELSE Len(entry.content))

(* ------------------------- walk_fs, per entry -------------------------- *)

\* line 59: the entry has no info or no name
HasName(entry) == entry.has_name

\* line 62 without the test for the "$" marker
IsSkippedNameNoMarker(name) == name \in { <<".">>, <<".", ".">> }

\* line 62: self and parent references, filesystem-internal entries
IsSkippedName(name) ==
    \/ name \in { <<".">>, <<".", ".">> }
    \/ (name # <<>> /\ Head(name) = "$")

\* line 64
FullPath(path, name) == Replace(Join(Strip(path), name))

\* lines 66 and 68: the path recursed into, the path yielded
YieldPath(full_path) == <<SLASH>> \o full_path

\* line 65
IsDirEntry(entry) == entry.meta.present /\ entry.meta.type = "dir"

\* lines 53-68: the paths walk_fs(fs, path) yields, in order, when no call
\* fails: WalkFs opens the directory, WalkEntries goes through its entries.
RECURSIVE WalkFs(_, _), WalkEntries(_, _, _)
WalkFs(root, path) ==
    LET dir == OpenDir(root, path)
    IN IF dir = <<>> THEN <<>> ELSE WalkEntries(root, dir[1], path)

WalkEntries(root, entries, path) ==
    IF entries = <<>> THEN <<>>
    ELSE LET entry == Head(entries)
             name == Decode(entry.name)
             full_path == FullPath(path, name)
             yielded == IF ~HasName(entry) \/ IsSkippedName(name) THEN <<>>
                        ELSE IF IsDirEntry(entry)
                             THEN WalkFs(root, YieldPath(full_path))
                             ELSE <<YieldPath(full_path)>>
         IN yielded \o WalkEntries(root, Tail(entries), path)

(* --------------------- search_filesystem, per file --------------------- *)

\* line 88
FileSize(file_obj) == IF file_obj.meta.present THEN file_obj.meta.size ELSE 0

\* line 89
FileName(file_path) == LET pieces == Split(file_path) IN pieces[Len(pieces)]

\* lines 92-102: a timestamp is taken when the metadata is there and the
\* field is non-zero
Timestamp(file_obj, t) ==
    IF file_obj.meta.present /\ t # 0 THEN FromTimestamp(t) ELSE None

\* line 105
ReadData(file_obj, size) == IF size # 0 THEN ReadRandom(file_obj, size) ELSE <<>>

\* line 109 with the membership test always true
HashMatchesAny(file_hash, hash_set) == TRUE

\* line 109
HashMatches(file_hash, hash_set) == file_hash \in hash_set

\* lines 113-122
MakeFinding(file_hash, path, size, file_obj, offset) ==
    [hash_value |-> file_hash,
     file_path |-> path,
     file_size |-> size,
     file_name |-> FileName(path),
     partition_offset |-> offset,
     created_time |-> Timestamp(file_obj, file_obj.meta.crtime),
     modified_time |-> Timestamp(file_obj, file_obj.meta.mtime),
     accessed_time |-> Timestamp(file_obj, file_obj.meta.atime)]

\* line 130 left out
SameCount(processed) == processed

\* line 130
NextCount(processed) == processed + 1

\* lines 109-110 with the counter outside the test
NextMatchesAlways(matches, match) == matches + 1

\* lines 109-110
NextMatches(matches, match) == IF match THEN matches + 1 ELSE matches

\* line 77
progress_interval == 1

\* line 142: the average rate as the fraction <<files, seconds>>; 0 when no
\* time has passed
AvgRate(processed, total_time) ==
    IF total_time > 0 THEN <<processed, total_time>> ELSE <<0, 1>>

\* lines 141-145: what is kept of the final report (the two counters, whether
\* the average rate is a number) and the length of the list returned
FinalReport(processed, matches, total_time, returned) ==
    [processed_files |-> processed,
     matches_found |-> matches,
     rate_defined |-> AvgRate(processed, total_time)[2] # 0,
     returned |-> Len(returned)]

(* ------------------------- exception handling -------------------------- *)

\* The exceptions of a run: what pytsk3 raises, the division at line 136,
\* and the interrupt the user sends.
IsException(kind) == kind \in {"IOError", "ZeroDivisionError"}

\* The handlers without the except clause of line 39: an exception in the
\* body of the partition loop reaches the bare except of line 41
HandlerNoInner(region, kind) ==
    CASE region = "partition" -> "L41"
      [] region = "probe" -> "L41"
      [] OTHER -> IF IsException(kind) THEN "L48" ELSE "uncaught"

\* The handlers without the except clause of line 48
HandlerNoOuter(region, kind) ==
    CASE region = "partition" -> IF IsException(kind) THEN "L39" ELSE "L41"
      [] region = "probe" -> "L41"
      [] OTHER -> "uncaught"

\* The handler an exception raised in a region of search_image_for_hashes
\* reaches: the regions are the call at line 25 ("open"), the call at line 29
\* ("probe"), the body of the partition loop ("partition") and the fallback
\* at lines 43-46 ("single").
Handler(region, kind) ==
    CASE region = "partition" -> IF IsException(kind) THEN "L39" ELSE "L41"
      [] region = "probe" -> "L41"
      [] OTHER -> IF IsException(kind) THEN "L48" ELSE "uncaught"

\* line 31 with a loop that stays on the partition it has
SamePartition(i) == i

\* line 31: the loop moves to the next partition
NextPartition(i) == i + 1

\* lines 38 and 46 with the new Findings put in front
ExtendFront(all, partition_findings) == partition_findings \o all

\* lines 38 and 46
Extend(all, partition_findings) == all \o partition_findings

(* ------------------------------- state --------------------------------- *)

VARIABLES
    image,              \* the image at image_path
    hashes,             \* the target hash set
    pc,                 \* where the run is
    region,             \* the try block the run is in
    part_idx,           \* position of the loop at line 31 in the table
    all_findings,       \* line 21
    errors,             \* calls of logger.error so far
    fs,                 \* the mounted filesystem (its root entries)
    partition_offset,   \* search_filesystem's parameter
    findings,           \* line 72
    processed_files,    \* line 74
    matches_found,      \* line 75
    last_progress_time, \* line 76
    start_time,         \* line 78
    stack,              \* the frames of the walk_fs generator
    file_path,          \* the path the generator yielded last
    file_names,         \* the entry names from the root down to that file
    seen,               \* the calls made on fs in this scan
    clock,              \* time.time()
    faults,             \* adverse events so far
    failed,             \* the collaborator calls that raised so far
    interrupted,        \* a KeyboardInterrupt was delivered
    called,             \* the calls made on pytsk3 itself so far
    file_opens,         \* calls of fs.open so far
    retried,            \* some collaborator call was made twice
    created,            \* every Finding constructed so far, in order, each
                        \* with the open and read it was made from
    steps,              \* steps of the running search_filesystem so far
    reports,            \* the final reports logged so far (line 143), each
                        \* with the length of the list returned with it
    run,                \* 1 in the first call of search_image_for_hashes,
                        \* 2 in the second
    first_result        \* the list the first call returned

run_vars == <<pc, region, part_idx, all_findings, errors>>
scan_vars == <<fs, partition_offset, findings, processed_files, matches_found,
               last_progress_time, start_time, stack, file_path, file_names, seen>>
ghost_vars == <<faults, failed, interrupted, called, file_opens, retried, created>>
vars == <<image, hashes, run_vars, scan_vars, clock, ghost_vars, steps, reports,
          run, first_result>>

Init ==
    /\ image \in Images
    /\ hashes \in HashSets
    /\ pc = "Start"
    /\ region = "open"
    /\ part_idx = 0
    /\ all_findings = <<>>
    /\ errors = 0
    /\ fs = <<>>
    /\ partition_offset = None
    /\ findings = <<>>
    /\ processed_files = 0
    /\ matches_found = 0
    /\ last_progress_time = 0
    /\ start_time = 0
    /\ stack = <<>>
    /\ file_path = <<>>
    /\ file_names = <<>>
    /\ seen = {}
    /\ clock = 0
    /\ faults = 0
    /\ failed = {}
    /\ interrupted = FALSE
    /\ called = {}
    /\ file_opens = 0
    /\ retried = FALSE
    /\ created = <<>>
    /\ steps = 0
    /\ reports = <<>>
    /\ run = 1
    /\ first_result = <<>>

\* A call on pytsk3 is recorded; a second call with the same arguments is a
\* retry.
Call(op) ==
    /\ called' = called \cup {op}
    /\ retried' = (retried \/ op \in called)

\* A collaborator call raises: one more adverse event. (The second call of
\* search_image_for_hashes is given the answers of a first call in which no
\* collaborator call raised.)
Fault(call) ==
    /\ run = 1
    /\ faults < MaxFaults
    /\ faults' = faults + 1
    /\ failed' = failed \cup {call}

NoFault == UNCHANGED <<faults, failed>>

\* The locals of search_filesystem are dropped when it is left.
LeaveScan ==
    /\ fs' = <<>>
    /\ partition_offset' = None
    /\ findings' = <<>>
    /\ processed_files' = 0
    /\ matches_found' = 0
    /\ last_progress_time' = 0
    /\ start_time' = 0
    /\ stack' = <<>>
    /\ file_path' = <<>>
    /\ file_names' = <<>>
    /\ seen' = {}
    /\ steps' = 0

\* An exception of the given kind is raised where the run is: control moves
\* to the handler that catches it (lines 39-40, 41-43, 48-49) or leaves the
\* function.
Raise(kind) ==
    LET h == Handler(region, kind) IN
    /\ pc' = CASE h = "L39" -> "Partitions"
               [] h = "L41" -> "Fallback"
               [] h = "L48" -> "Done"
               [] OTHER -> "Raised"
    /\ region' = IF h = "L41" THEN "single" ELSE region
    /\ part_idx' = IF h = "L39" THEN NextPartition(part_idx) ELSE part_idx
    /\ errors' = IF h \in {"L39", "L48"} THEN errors + 1 ELSE errors
    /\ LeaveScan

(* ------------------------ search_image_for_hashes ---------------------- *)

\* line 25: pytsk3.Img_Info(image_path)
OpenImage ==
    /\ pc = "Start"
    /\ Call(<<"Img_Info", 0>>)
    /\ \/ /\ pc' = "Probe"
          /\ region' = "probe"
          /\ UNCHANGED <<part_idx, errors, scan_vars, steps>>
          /\ NoFault
       \/ /\ Fault("Img_Info")
          /\ Raise("IOError")
    /\ UNCHANGED <<image, hashes, run, first_result, reports, all_findings, clock, interrupted, file_opens,
                   created>>

\* line 29: pytsk3.Volume_Info(img)
ProbePartitions ==
    /\ pc = "Probe"
    /\ Call(<<"Volume_Info", 0>>)
    /\ IF image.readable
       THEN /\ pc' = "Partitions"
            /\ region' = "partition"
            /\ part_idx' = 1
            /\ UNCHANGED <<errors, scan_vars, failed, steps>>
       ELSE /\ failed' = failed \cup {"Volume_Info"}
            /\ Raise("IOError")
    /\ UNCHANGED <<image, hashes, run, first_result, reports, all_findings, clock, faults, interrupted,
                   file_opens, created>>

\* lines 31-36: the next partition of the table is mounted
MountPartition ==
    /\ pc = "Partitions"
    /\ part_idx <= Len(image.parts)
    /\ Call(<<"FS_Info", part_idx>>)
    /\ \/ /\ fs' = FsAtByte(image.parts[part_idx] * image.block_size)
          /\ partition_offset' = image.parts[part_idx]
          /\ pc' = "ScanStart"
          /\ UNCHANGED <<region, part_idx, errors, findings, processed_files,
                         matches_found, last_progress_time, start_time, stack,
                         file_path, file_names, seen, steps>>
          /\ NoFault
       \/ /\ Fault("FS_Info")
          /\ Raise("IOError")
    /\ UNCHANGED <<image, hashes, run, first_result, reports, all_findings, clock, interrupted, file_opens,
                   created>>

\* line 31 finds no further partition; line 51 returns
PartitionsDone ==
    /\ pc = "Partitions"
    /\ part_idx > Len(image.parts)
    /\ pc' = "Done"
    /\ UNCHANGED <<image, hashes, run, first_result, reports, region, part_idx, all_findings, errors,
                   scan_vars, clock, ghost_vars, steps>>

\* lines 43-44: the whole image is mounted as one filesystem
MountWhole ==
    /\ pc = "Fallback"
    /\ Call(<<"FS_Info", 0>>)
    /\ \/ /\ fs' = FsAtByte(0)
          /\ partition_offset' = None
          /\ pc' = "ScanStart"
          /\ UNCHANGED <<region, part_idx, errors, findings, processed_files,
                         matches_found, last_progress_time, start_time, stack,
                         file_path, file_names, seen, steps>>
          /\ NoFault
       \/ /\ Fault("FS_Info")
          /\ Raise("IOError")
    /\ UNCHANGED <<image, hashes, run, first_result, reports, all_findings, clock, interrupted, file_opens,
                   created>>

\* A KeyboardInterrupt arrives while the function runs.
Interrupt ==
    /\ pc \notin {"Done", "Raised"}
    /\ run = 1
    /\ faults < MaxFaults
    /\ faults' = faults + 1
    /\ interrupted' = TRUE
    /\ Raise("KeyboardInterrupt")
    /\ UNCHANGED <<image, hashes, run, first_result, reports, all_findings, clock, failed, called, file_opens,
                   retried, created>>

(* --------------------------- search_filesystem ------------------------- *)

Frame(path, names, entries, idx) ==
    [path |-> path, names |-> names, entries |-> entries, idx |-> idx]

Top == stack[Len(stack)]
Pop == SubSeq(stack, 1, Len(stack) - 1)

\* lines 72-82: the locals are set, the clock is read twice, the generator
\* walk_fs(fs) is created
ScanStart ==
    /\ pc = "ScanStart"
    /\ steps' = steps + 1
    /\ \E t1 \in clock..MaxClock : \E t2 \in t1..MaxClock :
          /\ last_progress_time' = t1
          /\ start_time' = t2
          /\ clock' = t2
    /\ findings' = <<>>
    /\ processed_files' = 0
    /\ matches_found' = 0
    /\ stack' = <<Frame(<<SLASH>>, <<>>, <<>>, 0)>>
    /\ pc' = "OpenDir"
    /\ UNCHANGED <<image, hashes, run, first_result, reports, region, part_idx, all_findings, errors, fs,
                   partition_offset, file_path, file_names, seen, ghost_vars>>

\* lines 54-57: fs.open_dir(path); an IOError ends this walk_fs silently
WalkOpenDir ==
    /\ pc = "OpenDir"
    /\ steps' = steps + 1
    /\ seen' = seen \cup {<<"open_dir", Top.path>>}
    /\ retried' = (retried \/ <<"open_dir", Top.path>> \in seen)
    /\ LET dir == OpenDir(fs, Top.path) IN
       \/ /\ dir # <<>>
          /\ stack' = Pop \o <<Frame(Top.path, Top.names, dir[1], 1)>>
          /\ NoFault
       \/ /\ dir = <<>>
          /\ stack' = Pop
          /\ NoFault
       \/ /\ dir # <<>>
          /\ Fault("open_dir")
          /\ stack' = Pop
    /\ pc' = "Walk"
    /\ UNCHANGED <<image, hashes, run, first_result, reports, region, part_idx, all_findings, errors, fs,
                   partition_offset, findings, processed_files, matches_found,
                   last_progress_time, start_time, file_path, file_names,
                   clock, interrupted, called, file_opens, created>>

\* lines 58-68: the generator takes the next entry of the directory on top:
\* it skips it, recurses into it or yields its path; with no entry left the
\* walk_fs on top returns
WalkEntry ==
    /\ pc = "Walk"
    /\ steps' = steps + 1
    /\ stack # <<>>
    /\ IF Top.idx > Len(Top.entries)
       THEN /\ stack' = Pop
            /\ pc' = "Walk"
            /\ UNCHANGED <<file_path, file_names>>
       ELSE LET entry == Top.entries[Top.idx]
                name == Decode(entry.name)
                full_path == FullPath(Top.path, name)
                rest == Pop \o <<Frame(Top.path, Top.names, Top.entries, Top.idx + 1)>>
            IN IF ~HasName(entry) \/ IsSkippedName(name)
               THEN /\ stack' = rest
                    /\ pc' = "Walk"
                    /\ UNCHANGED <<file_path, file_names>>
               ELSE IF IsDirEntry(entry)
               THEN /\ stack' = rest \o <<Frame(YieldPath(full_path),
                                               Append(Top.names, name), <<>>, 0)>>
                    /\ pc' = "OpenDir"
                    /\ UNCHANGED <<file_path, file_names>>
               ELSE /\ stack' = rest
                    /\ file_path' = YieldPath(full_path)
                    /\ file_names' = Append(Top.names, name)
                    /\ pc' = "Process"
    /\ UNCHANGED <<image, hashes, run, first_result, reports, region, part_idx, all_findings, errors, fs,
                   partition_offset, findings, processed_files, matches_found,
                   last_progress_time, start_time, seen, clock, ghost_vars>>

\* line 58: reading the directory fails; the IOError is raised outside the
\* try of lines 54-57 and outside the try of lines 83-128
WalkError ==
    /\ pc = "Walk"
    /\ stack # <<>>
    /\ Fault("readdir")
    /\ Raise("IOError")
    /\ UNCHANGED <<image, hashes, run, first_result, reports, all_findings, clock, interrupted, called,
                   file_opens, retried, created>>

\* lines 83-138: one turn of the loop. The file is opened, its metadata and
\* content read, the content hashed and matched (an exception in there is
\* caught at line 127); then the counter, the clock and the progress report.
ProcessFile ==
    /\ pc = "Process"
    /\ \E outcome \in {"ok", "open_fails", "read_fails"} : \E t \in clock..MaxClock :
       \E hit \in {OpenFile(fs, file_path)} :
       LET found == hit # <<>>
           file_obj == hit[1]
           size == IF found THEN FileSize(file_obj) ELSE 0
           opened == found /\ outcome # "open_fails"
           reads == opened /\ size # 0
           read_ok == opened /\ ~(reads /\ outcome = "read_fails")
           data == IF read_ok THEN ReadData(file_obj, size) ELSE <<>>
           file_hash == Sha256(data)
           match == read_ok /\ HashMatches(file_hash, hashes)
           finding == MakeFinding(file_hash, file_path, size, file_obj, partition_offset)
           divides == t - last_progress_time >= progress_interval
       IN /\ outcome = "open_fails" => found
          /\ outcome = "read_fails" => found /\ size # 0
          /\ IF outcome = "ok" THEN NoFault
             ELSE Fault(IF outcome = "open_fails" THEN "open" ELSE "read_random")
          /\ file_opens' = file_opens + 1
          /\ retried' = (retried \/ <<"open", file_path>> \in seen
                                  \/ <<"read_random", file_path>> \in seen)
          /\ created' = IF match
                        THEN Append(created,
                                    [finding |-> finding, path |-> file_path,
                                     opened |-> opened, read |-> read_ok,
                                     data |-> data])
                        ELSE created
          /\ clock' = t
          /\ IF divides /\ t - start_time = 0
             THEN Raise("ZeroDivisionError")
             ELSE /\ findings' = IF match THEN Append(findings, finding) ELSE findings
                  /\ matches_found' = NextMatches(matches_found, match)
                  /\ processed_files' = NextCount(processed_files)
                  /\ last_progress_time' = IF divides THEN t ELSE last_progress_time
                  /\ seen' = seen \cup {<<"open", file_path>>}
                                   \cup (IF reads THEN {<<"read_random", file_path>>}
                                         ELSE {})
                  /\ pc' = "Walk"
                  /\ steps' = steps + 1
                  /\ UNCHANGED <<region, part_idx, errors, fs, partition_offset,
                                 start_time, stack, file_path, file_names>>
    /\ UNCHANGED <<image, hashes, run, first_result, reports, all_findings, interrupted, called>>

\* lines 141-145, then line 38 or line 46: the walk is over, the scan reports
\* and returns its findings, the caller appends them to all_findings
ScanReturn ==
    /\ pc = "Walk"
    /\ stack = <<>>
    /\ \E t \in clock..MaxClock :
          /\ clock' = t
          /\ reports' = Append(reports,
                               FinalReport(processed_files, matches_found,
                                           t - start_time, findings))
    /\ all_findings' = Extend(all_findings, findings)
    /\ IF region = "partition"
       THEN /\ part_idx' = NextPartition(part_idx)
            /\ pc' = "Partitions"
       ELSE /\ pc' = "Done"
            /\ UNCHANGED part_idx
    /\ LeaveScan
    /\ UNCHANGED <<image, hashes, run, first_result, region, errors, ghost_vars>>

\* The caller calls search_image_for_hashes again, on the same image with
\* the same hashes, after a first call in which no collaborator call raised
\* and no interrupt arrived: lines 20-21 start afresh.
CallAgain ==
    /\ pc = "Done"
    /\ run = 1
    /\ faults = 0
    /\ run' = 2
    /\ first_result' = all_findings
    /\ pc' = "Start"
    /\ region' = "open"
    /\ part_idx' = 0
    /\ all_findings' = <<>>
    /\ errors' = 0
    /\ called' = {}
    /\ file_opens' = 0
    /\ created' = <<>>
    /\ reports' = <<>>
    /\ UNCHANGED <<image, hashes, scan_vars, clock, faults, failed, interrupted,
                   retried, steps>>

Next ==
    \/ OpenImage
    \/ ProbePartitions
    \/ MountPartition
    \/ PartitionsDone
    \/ MountWhole
    \/ Interrupt
    \/ ScanStart
    \/ WalkOpenDir
    \/ WalkEntry
    \/ WalkError
    \/ ProcessFile
    \/ ScanReturn
    \/ CallAgain

Spec == Init /\ [][Next]_vars

(* ------------------------------ properties ----------------------------- *)

Range(seq) == { seq[i] : i \in 1..Len(seq) }

\* The list the caller receives.
Returned == pc = "Done"

\* The Findings constructed so far.
Constructed == { created[i].finding : i \in 1..Len(created) }

\* The entries of a directory tree.
RECURSIVE TreeSize(_)
TreeSize(entries) ==
    IF entries = <<>> THEN 0
    ELSE 1 + TreeSize(Head(entries).children) + TreeSize(Tail(entries))

\* The steps one search_filesystem can take on a filesystem: the start, the
\* opening of the root, the return of the root's walk_fs and at most three
\* steps for every entry (it is taken from its directory, it is processed or
\* opened, its walk_fs returns).
ScanBound(root) == 3 + 3 * TreeSize(root)

\* The calls on pytsk3 a run can make on the image.
Operations ==
    {<<"Img_Info", 0>>, <<"Volume_Info", 0>>}
        \cup { <<"FS_Info", i>> : i \in 0..Len(image.parts) }

\* The function itself has a step to take where it is.
CanStep ==
    CASE pc = "Start" -> ENABLED OpenImage
      [] pc = "Probe" -> ENABLED ProbePartitions
      [] pc = "Partitions" -> ENABLED (MountPartition \/ PartitionsDone)
      [] pc = "Fallback" -> ENABLED MountWhole
      [] pc = "ScanStart" -> ENABLED ScanStart
      [] pc = "OpenDir" -> ENABLED WalkOpenDir
      [] pc = "Walk" -> ENABLED (WalkEntry \/ ScanReturn)
      [] pc = "Process" -> ENABLED ProcessFile
      [] OTHER -> FALSE

\* "/" followed by the names joined by single "/".
RECURSIVE AbsPath(_)
AbsPath(names) ==
    IF names = <<>> THEN <<>>
    ELSE <<SLASH>> \o Head(names) \o AbsPath(Tail(names))

\* The file of the image a Finding is about: the byte offset of its
\* filesystem in the image and its path there.
FileOf(f) ==
    <<IF f.partition_offset = None THEN 0 ELSE f.partition_offset * image.block_size,
      Components(f.file_path)>>

\* C4 (as claimed): every path walk_fs yields is "/" followed by the entry
\* names from the root joined by single "/": /a for a in the root, /d/b for
\* b in /d.
C4_PathForm ==
    pc = "Process" => file_path = AbsPath(file_names)

\* C1 (as claimed): in the returned list every file that was opened and read
\* and whose digest is in the target set has exactly one Finding, in every run
\* that no interrupt cut short.
C1_Completeness ==
    (Returned /\ ~interrupted) =>
        \A f \in Constructed :
            Cardinality({ i \in 1..Len(all_findings) :
                            FileOf(all_findings[i]) = FileOf(f) }) = 1

\* C2: every Finding held has a hash_value of the target set and was
\* constructed by the scan; and a Finding was constructed only for a file that
\* was opened and read, with the digest of the bytes read, which is in the set.
C2_Soundness ==
    /\ \A f \in Range(all_findings) \cup Range(findings) :
           f.hash_value \in hashes /\ f \in Constructed
    /\ \A i \in 1..Len(created) :
           /\ created[i].opened /\ created[i].read
           /\ created[i].path = created[i].finding.file_path
           /\ created[i].finding.hash_value = Sha256(created[i].data)
           /\ created[i].finding.hash_value \in hashes

\* C2 witness: a search has returned a Finding.
C2_Witness == Returned /\ all_findings # <<>>

\* C3 (as claimed): without a readable partition table every returned Finding
\* has partition_offset None; with one, every returned Finding carries the
\* start of a partition of the table whose filesystem holds the file.
C3_Tagging ==
    Returned =>
        \A f \in Range(all_findings) :
            IF ~image.readable THEN f.partition_offset = None
            ELSE /\ f.partition_offset \in Range(image.parts)
                 /\ OpenFile(FsAtByte(f.partition_offset * image.block_size),
                             f.file_path) # <<>>

\* C5 (as claimed): after a mount failure in per-partition mode, every
\* partition of the table was still mounted and the Findings of all the
\* partitions are in the returned list, in every run that no interrupt cut
\* short.
C5_MountFailureSkipsOne ==
    (Returned /\ image.readable /\ "FS_Info" \in failed /\ ~interrupted) =>
        /\ \A i \in 1..Len(image.parts) : <<"FS_Info", i>> \in called
        /\ \A f \in Constructed : f \in Range(all_findings)

\* C6 (as claimed): the single-filesystem scan is never entered after a
\* partition was mounted, and a returned list never mixes Findings with and
\* without a partition offset.
C6_OneModePerRun ==
    /\ region = "single" => \A i \in 1..Len(image.parts) : <<"FS_Info", i>> \notin called
    /\ Returned =>
          \A f, g \in Range(all_findings) :
              (f.partition_offset = None) = (g.partition_offset = None)

\* C7 (as claimed): whatever exception ended a scan, every Finding constructed
\* before it is in the returned list.
C7_PartialResultsKept ==
    (Returned /\ ~interrupted) => \A f \in Constructed : f \in Range(all_findings)

\* C8: once opening the image has failed, the run is over: nothing was probed,
\* mounted or read, the error was logged once and the empty list is returned.
C8_FatalOpen ==
    "Img_Info" \in failed =>
        /\ Returned
        /\ all_findings = <<>>
        /\ errors = 1
        /\ called = {<<"Img_Info", 0>>}
        /\ file_opens = 0
        /\ seen = {}

\* C8 witness: opening the image has failed.
C8_Witness == "Img_Info" \in failed /\ Returned

\* C9: whatever collaborator calls fail, the run ends: every scan of a
\* filesystem takes a bounded number of steps, the run makes each of the
\* finitely many calls on the image at most once and no call on a filesystem
\* twice, the function has a step to take until it has returned or an
\* interrupt has left it, and only an interrupt leaves it without a return.
C9_Termination ==
    /\ steps <= ScanBound(fs)
    /\ called \subseteq Operations
    /\ ~retried
    /\ pc \notin {"Done", "Raised"} => CanStep
    /\ pc = "Raised" => interrupted

\* C9 witness: a partition failed to mount, a later one was scanned and the
\* run has returned.
C9_Witness == Returned /\ ~interrupted /\ "FS_Info" \in failed /\ file_opens > 0

\* A path without a component ".", ".." or one that begins with "$".
CleanPath(path) ==
    \A c \in Range(Split(path)) :
        /\ c \notin { <<".">>, <<".", ".">> }
        /\ c = <<>> \/ Head(c) # "$"

\* C10: no path yielded, no directory recursed into and no Finding has a
\* component ".", ".." or one that begins with "$".
C10_TraversalFiltering ==
    /\ pc = "Process" => CleanPath(file_path)
    /\ \A i \in 1..Len(stack) : CleanPath(stack[i].path)
    /\ \A f \in Range(findings) \cup Range(all_findings) \cup Constructed :
           CleanPath(f.file_path)

\* C10 witness: the walk has just passed a directory with entries in it whose
\* name begins with "$".
C10_Witness ==
    /\ pc = "Walk"
    /\ stack # <<>>
    /\ Top.idx > 1
    /\ Top.idx - 1 <= Len(Top.entries)
    /\ LET e == Top.entries[Top.idx - 1] IN
          /\ HasName(e)
          /\ Head(Decode(e.name)) = "$"
          /\ IsDirEntry(e)
          /\ e.children # <<>>

\* The Findings constructed so far, in the order of their construction.
CreatedSeq == [i \in 1..Len(created) |-> created[i].finding]

TableIndex(offset) ==
    IF offset \in Range(image.parts)
    THEN CHOOSE k \in 1..Len(image.parts) : image.parts[k] = offset
    ELSE Len(image.parts) + 1

\* The filesystem a Finding was found in.
FsOf(f) ==
    FsAtByte(IF f.partition_offset = None THEN 0
             ELSE f.partition_offset * image.block_size)

\* A list of Findings is in the order of discovery: in the order of their
\* construction, partition after partition in the order of the table, and
\* within a filesystem in the order in which walk_fs yields the paths.
Ordered(seq) ==
    \A i, j \in 1..Len(seq) :
        i < j =>
            /\ \E p, q \in 1..Len(created) :
                  p < q /\ created[p].finding = seq[i] /\ created[q].finding = seq[j]
            /\ TableIndex(seq[i].partition_offset) <= TableIndex(seq[j].partition_offset)
            /\ seq[i].partition_offset = seq[j].partition_offset =>
                  LET walk == WalkFs(FsOf(seq[i]), <<SLASH>>)
                  IN \E p, q \in 1..Len(walk) :
                        p < q /\ walk[p] = seq[i].file_path /\ walk[q] = seq[j].file_path

\* C12: the list a scan collects and the list the run returns are in the
\* order of discovery, and the partitions are mounted in the order of the
\* table, none before the one in front of it.
C12_ResultOrder ==
    /\ Ordered(findings)
    /\ Ordered(all_findings)
    /\ \A i \in 2..Len(image.parts) :
           <<"FS_Info", i>> \in called => <<"FS_Info", i - 1>> \in called

\* C12 witness: the returned list has two Findings of one partition and
\* Findings of two partitions.
C12_Witness ==
    /\ Returned
    /\ ~interrupted
    /\ \E i, j \in 1..Len(all_findings) :
          i < j /\ all_findings[i].partition_offset = all_findings[j].partition_offset
    /\ \E i, j \in 1..Len(all_findings) :
          all_findings[i].partition_offset # all_findings[j].partition_offset

\* C13 (as claimed): the file_size of every Finding constructed is the number
\* of bytes that were read from the file and hashed.
C13_FindingSize ==
    \A i \in 1..Len(created) :
        created[i].finding.file_size = Len(created[i].data)

\* The directory entry whose path the generator yielded last.
YieldedEntry == Top.entries[Top.idx - 1]

\* C14 (as claimed): every path walk_fs yields is the path of an entry that
\* has metadata and is not a directory.
C14_YieldsFilesWithMetadata ==
    pc = "Process" =>
        /\ YieldedEntry.meta.present
        /\ YieldedEntry.meta.type # "dir"

\* C15 (as claimed): a second call on the same image with the same hashes,
\* in which the collaborator answers as in the first, returns the list the
\* first call returned.
C15_Idempotence ==
    (Returned /\ run = 2) => all_findings = first_result

\* C16 (as claimed): when the open or the read of the yielded file fails, the
\* scan goes on: the file is counted, no Finding is constructed, the Findings
\* collected are unchanged and the walk is where it was, ready to yield the
\* next path.
C16_FileFailuresAbsorbed ==
    [][ (/\ pc = "Process"
         /\ interrupted' = interrupted
         /\ (faults' > faults \/ OpenFile(fs, file_path) = <<>>))
        => (/\ pc' = "Walk"
            /\ created' = created
            /\ findings' = findings
            /\ processed_files' = processed_files + 1
            /\ stack' = stack) ]_vars

\* The calls of fs.open and of read_random made in the running scan.
Opens == { c \in seen : c[1] = "open" }
Reads == { c \in seen : c[1] = "read_random" }

\* C17: in a scan no call on the filesystem is made twice, a yielded path has
\* not been opened before, a file is read only after it was opened, and the
\* processed-files counter is the number of paths opened, whether the file
\* matched, did not match or failed.
C17_ExactlyOnce ==
    /\ ~retried
    /\ pc = "Process" => <<"open", file_path>> \notin seen
    /\ \A c \in Reads : <<"open", c[2]>> \in Opens
    /\ processed_files = Cardinality(Opens)

\* C17 witness: a scan has processed a file that failed and a file that
\* matched.
C17_Witness ==
    /\ pc = "Walk"
    /\ processed_files >= 2
    /\ failed \cap {"open", "read_random"} # {}
    /\ findings # <<>>

\* The filesystems mounted so far in the run.
Mounted == { op \in called : op[1] = "FS_Info" }

\* C18 (as claimed): a progress snapshot is logged (and last_progress_time
\* moved) only when the clock is at least progress_interval past the previous
\* snapshot or the start of the scan; every scan that no interrupt and no
\* failing mount or directory read cut short logs exactly one final report;
\* and no final report has an average rate with a zero divisor.
C18_ProgressCadence ==
    /\ [][ (pc = "Process" /\ pc' = "Walk"
              /\ last_progress_time' # last_progress_time)
           => last_progress_time' - last_progress_time >= progress_interval ]_vars
    /\ [](\A i \in 1..Len(reports) : reports[i].rate_defined)
    /\ []((Returned /\ ~interrupted /\ failed \cap {"FS_Info", "readdir"} = {})
            => Len(reports) = Cardinality(Mounted))

\* C19: in a run on an image whose partition table was read, unless an
\* interrupt arrives, the whole image is never mounted as one filesystem; and
\* when the table is empty or every partition failed to mount, every
\* partition was tried, each failure was logged and the empty list is
\* returned.
C19_NoFallbackOnContents ==
    (image.readable /\ ~interrupted) =>
        /\ region # "single"
        /\ <<"FS_Info", 0>> \notin called
        /\ (Returned /\ "Volume_Info" \in { op[1] : op \in called }
                     /\ failed \subseteq {"FS_Info"}
                     /\ faults = Len(image.parts)) =>
              /\ all_findings = <<>>
              /\ errors = Len(image.parts)
              /\ \A i \in 1..Len(image.parts) : <<"FS_Info", i>> \in called

\* C19 witness: the only partition of the table has failed to mount and the
\* run has returned.
C19_Witness ==
    /\ Returned
    /\ image.readable
    /\ Len(image.parts) = 1
    /\ failed = {"FS_Info"}
    /\ ~interrupted

\* C20: between files the matches-found counter is the number of Findings
\* the scan has collected, which is at most the number of files processed
\* (and so at most that number plus one); and every final report gives as
\* match count the length of the list returned with it.
C20_MatchesCounter ==
    /\ matches_found <= processed_files + 1
    /\ matches_found = Len(findings)
    /\ Len(findings) <= processed_files
    /\ \A i \in 1..Len(reports) : reports[i].matches_found = reports[i].returned

\* C20 witness: a scan has ended with a final report of files that matched and
\* files that did not.
C20_Witness ==
    \E i \in 1..Len(reports) :
        /\ reports[i].matches_found >= 1
        /\ reports[i].processed_files > reports[i].matches_found

====
